---- MODULE Spec2Model ----
(***************************************************************************)
(* The Wizard rules engine (src/server/game/game.py, class WizardGame) as  *)
(* a state machine.  The variables are the fields of a WizardGame object;  *)
(* every public method is one action that applies the whole method,        *)
(* including its failing paths, to the current state.                      *)
(*                                                                         *)
(* Each method is first written as an operator from a game record (and the *)
(* call's arguments) to the record after the call and the exception it     *)
(* raised ("OK" when it returned normally), so that a statement about a    *)
(* call can be checked in every reachable state for every argument.        *)
(*                                                                         *)
(* Hands and the deck are Python lists.  No method reads the position of a *)
(* card in a hand (play_card tests membership and removes one occurrence)  *)
(* nor the order of the deck once the cards of a round have been popped,   *)
(* so both are kept as multisets (card -> number of copies).  The order in *)
(* which start_round pops the shuffled deck is kept: a deal is computed    *)
(* from the sequence of popped cards.                                      *)
(***************************************************************************)
EXTENDS Integers, Sequences, FiniteSets, TLC

(***************************************************************************)
(* Bounds.  The program plays with 4 suits of 13 ranks, 4 wizards and 4    *)
(* jesters (60 cards) and 3 to 6 players; the model scales the deck down   *)
(* and keeps every place where the program writes 60 as DeckSize.          *)
(***************************************************************************)
NumPlayers == 3
NumSuits == 2
NumRanks == 2
NumWizards == 1
NumJesters == 3
\* Highest number of tricks a caller passes to make_prediction.
MaxPrediction == 1
\* start_round is followed until it has failed this many times.
MaxFailedStarts == 1
\* calculate_round_scores is followed until it has changed the scores this
\* many times; no round is started after that.
MaxScoreCalls == 1
\* make_prediction is followed in rounds 0..MaxPredictionRound; a round in
\* which predictions were made is followed by a next round only below that.
MaxPredictionRound == 1
\* The highest prediction typed at the prompt of main().
MaxDriverPrediction == 0

AllNames == <<"P0", "P1", "P2", "P3", "P4", "P5">>
players == SubSeq(AllNames, 1, NumPlayers)
PlayerSet == {players[i] : i \in 1..NumPlayers}
\* A name that is not in the roster, and Python's None.
Stranger == "Stranger"
None == "None"
NoCard == <<>>

SUITS == SubSeq(<<"BLUE", "GREEN", "RED", "YELLOW">>, 1, NumSuits) \o <<"WHITE">>
OrdinarySuits == {SUITS[i] : i \in 1..NumSuits}
Wizard == <<"WHITE", "WIZARD">>
Jester == <<"WHITE", "JESTER">>
Cards == (OrdinarySuits \X (1..NumRanks)) \cup {Wizard, Jester}
DeckSize == NumSuits * NumRanks + NumWizards + NumJesters
max_rounds == DeckSize \div NumPlayers

\* ---- multisets of cards (Python lists whose order is never read) ----
EmptyBag == [c \in Cards |-> 0]
BagAdd(b, c) == [b EXCEPT ![c] = @ + 1]
BagRemove(b, c) == [b EXCEPT ![c] = @ - 1]
RECURSIVE SumOver(_, _)
SumOver(f, S) == IF S = {} THEN 0
                 ELSE LET x == CHOOSE y \in S : TRUE IN f[x] + SumOver(f, S \ {x})
BagSize(b) == SumOver(b, Cards)
RECURSIVE SeqToBag(_)
SeqToBag(s) == IF s = <<>> THEN EmptyBag ELSE BagAdd(SeqToBag(Tail(s)), Head(s))

\* _create_deck: every ordinary card once, then the wizards and the jesters.
create_deck == [c \in Cards |-> IF c = Wizard THEN NumWizards
                                ELSE IF c = Jester THEN NumJesters ELSE 1]

\* ---- the shuffled deck (random.shuffle, game.py line 95) ----
\* The sequences of k cards that k successive pops of a shuffled deck b can
\* return: any k cards of b in any order.
RECURSIVE Draws(_, _)
Draws(b, k) == IF k = 0 THEN {<<>>}
               ELSE UNION {{<<c>> \o s : s \in Draws(BagRemove(b, c), k - 1)}
                           : c \in {x \in Cards : b[x] > 0}}
RECURSIVE BagMinusSeq(_, _)
BagMinusSeq(b, s) == IF s = <<>> THEN b ELSE BagMinusSeq(BagRemove(b, Head(s)), Tail(s))

\* The pops start_round makes in round r: r per player, and the trump card
\* in every round but the last.
PopCount(r) == NumPlayers * r + (IF r < max_rounds THEN 1 ELSE 0)

\* A slip in the order of the deal: one pop per player, r times over.
HandPops_RoundRobin(order, seat, r) ==
    [i \in 1..r |-> order[(i - 1) * NumPlayers + seat + 1]]
\* The pops that fill the hand of the player at seat (0-based) in round r:
\* _deal_cards fills one hand after the other, r pops each.
HandPops(order, seat, r) == SubSeq(order, seat * r + 1, seat * r + r)

\* _deal_cards on a deck whose pops come in the given order.
_deal_cards(order, r) ==
    [hands |-> [p \in PlayerSet |->
                   LET seat == (CHOOSE i \in 1..NumPlayers : players[i] = p) - 1
                   IN  SeqToBag(HandPops(order, seat, r))],
     deck  |-> BagMinusSeq(create_deck, SubSeq(order, 1, NumPlayers * r)),
     rest  |-> SubSeq(order, NumPlayers * r + 1, Len(order))]

\* Every result of shuffling and dealing in round r.
Deals == [r \in 1..max_rounds |->
            {_deal_cards(order, r) : order \in Draws(create_deck, PopCount(r))}]

\* ---- the game object ----
VARIABLES current_round, trump_card, current_player, scores, predictions,
          hands, tricks_won, current_trick, deck,
          trick_players, discarded, score_calls,
          pc, pops, seat_cards

\* trick_players: who played each card of current_trick (the player argument
\*   of the play_card calls that appended them).
\* discarded: cards played in the current round and no longer in a hand.
\* score_calls: calls of calculate_round_scores that changed a score.
\* pc: where the caller of the game is: Anywhere for a caller that makes any
\*   call at any time, else the line of main() or of start_round it is at.
\* pops, seat_cards: the cards a shuffled deck hands out, in the order of the
\*   pops, and the cards each seat got from _deal_cards, in the order it got
\*   them; used where _deal_cards is followed on its own.
vars == <<current_round, trump_card, current_player, scores, predictions,
          hands, tricks_won, current_trick, deck,
          trick_players, discarded, score_calls,
          pc, pops, seat_cards>>

\* The fields of the WizardGame object in the current state.
Game == [current_round  |-> current_round,
         trump_card     |-> trump_card,
         current_player |-> current_player,
         scores         |-> scores,
         predictions    |-> predictions,
         hands          |-> hands,
         tricks_won     |-> tricks_won,
         current_trick  |-> current_trick,
         deck           |-> deck]

Install(g) == /\ current_round' = g.current_round
              /\ trump_card' = g.trump_card
              /\ current_player' = g.current_player
              /\ scores' = g.scores
              /\ predictions' = g.predictions
              /\ hands' = g.hands
              /\ tricks_won' = g.tricks_won
              /\ current_trick' = g.current_trick
              /\ deck' = g.deck

\* What a call leaves behind: the object and the exception ("OK" if none).
Result(g, e) == [g |-> g, err |-> e]

\* __init__
NewGame ==
        /\ current_round = 0
        /\ trump_card = NoCard
        /\ current_player = None
        /\ scores = [p \in PlayerSet |-> 0]
        /\ predictions = <<>>
        /\ hands = [p \in PlayerSet |-> EmptyBag]
        /\ tricks_won = [p \in PlayerSet |-> 0]
        /\ current_trick = <<>>
        /\ deck = create_deck
        /\ trick_players = <<>>
        /\ discarded = 0
        /\ score_calls = 0

Anywhere == [at |-> "anywhere", i |-> 0]
NoHands == [seat \in 0..(NumPlayers - 1) |-> <<>>]
Init == /\ NewGame
        /\ pc = Anywhere
        /\ pops = <<>>
        /\ seat_cards = NoHands

\* ---- start_round ----
\* A slip in start_round: every round is led by seat 0.
start_round_Seat0Leads(g, d) ==
    LET r == g.current_round + 1
        counted == [g EXCEPT !.current_round = r]
    IN  IF ~(r <= max_rounds) THEN Result(counted, "RoundLimitExceeded")
        ELSE LET dealt == [counted EXCEPT
                              !.tricks_won = [p \in PlayerSet |-> 0],
                              !.predictions = <<>>,
                              !.current_trick = <<>>,
                              !.deck = d.deck,
                              !.hands = d.hands]
                 drawn == IF r < max_rounds
                          THEN IF BagSize(dealt.deck) > 0
                               THEN [dealt EXCEPT !.trump_card = d.rest[1],
                                                  !.deck = BagRemove(@, d.rest[1])]
                               ELSE [dealt EXCEPT !.trump_card = NoCard]
                          ELSE dealt
             IN  Result([drawn EXCEPT !.current_player = players[1]], "OK")

\* d is the result of shuffling and dealing, used when the round starts.
start_round(g, d) ==
    LET r == g.current_round + 1
        counted == [g EXCEPT !.current_round = r]
    IN  IF ~(r <= max_rounds) THEN Result(counted, "RoundLimitExceeded")
        ELSE LET dealt == [counted EXCEPT
                              !.tricks_won = [p \in PlayerSet |-> 0],
                              !.predictions = <<>>,
                              !.current_trick = <<>>,
                              !.deck = d.deck,
                              !.hands = d.hands]
                 drawn == IF r < max_rounds
                          THEN IF BagSize(dealt.deck) > 0
                               THEN [dealt EXCEPT !.trump_card = d.rest[1],
                                                  !.deck = BagRemove(@, d.rest[1])]
                               ELSE [dealt EXCEPT !.trump_card = NoCard]
                          ELSE dealt
             IN  Result([drawn EXCEPT !.current_player =
                                         players[((r - 1) % NumPlayers) + 1]],
                        "OK")

\* ---- make_prediction ----
\* A slip in make_prediction: a second prediction replaces the first.
make_prediction_Overwrites(g, player, tricks) ==
    IF player \notin PlayerSet THEN Result(g, "UnknownPlayer")
    ELSE IF ~(0 <= tricks /\ tricks <= g.current_round)
         THEN Result(g, "PredictionOutOfRange")
    ELSE Result([g EXCEPT !.predictions =
                     (player :> tricks) @@ [q \in (DOMAIN @) \ {player} |-> @[q]]], "OK")

make_prediction(g, player, tricks) ==
    IF player \notin PlayerSet THEN Result(g, "UnknownPlayer")
    ELSE IF ~(0 <= tricks /\ tricks <= g.current_round)
         THEN Result(g, "PredictionOutOfRange")
    ELSE IF player \in DOMAIN g.predictions THEN Result(g, "DuplicatePrediction")
    ELSE Result([g EXCEPT !.predictions = (player :> tricks) @@ @], "OK")

\* ---- _determine_trick_winner ----
\* Positions in a trick are 1-based here (position 1 is Python's index 0), as
\* are the seats in players.
IsWizard(card) == card[1] = "WHITE" /\ card[2] = "WIZARD"
IsJester(card) == card[1] = "WHITE" /\ card[2] = "JESTER"
Min(S) == CHOOSE x \in S : \A y \in S : x <= y

\* The loop over valid_cards (lines 181-196) from position i on, w being the
\* position of winning_card (0: None).  -1: the comparison raised TypeError
\* because trump_card is None.
RECURSIVE RunningWinner(_, _, _, _)
RunningWinner(trick, trump, i, w) ==
    IF i > Len(trick) THEN w
    ELSE IF IsJester(trick[i]) THEN RunningWinner(trick, trump, i + 1, w)
    ELSE IF w = 0 THEN RunningWinner(trick, trump, i + 1, i)
    ELSE IF trump = NoCard THEN -1
    ELSE IF trick[i][1] = trump[1] /\ trick[w][1] # trump[1]
         THEN RunningWinner(trick, trump, i + 1, i)
    ELSE IF trick[i][1] = trick[w][1] /\ trick[i][2] > trick[w][2]
         THEN RunningWinner(trick, trump, i + 1, i)
    ELSE RunningWinner(trick, trump, i + 1, w)

\* The name of the winner, or None when the method raised TypeError.
_determine_trick_winner(trick, trump) ==
    LET wizards == {i \in 1..Len(trick) : IsWizard(trick[i])}
    IN  IF wizards # {} THEN players[Min(wizards)]
        ELSE IF \A i \in 1..Len(trick) : IsJester(trick[i]) THEN players[1]
        ELSE LET w == RunningWinner(trick, trump, 1, 0)
             IN  IF w = -1 THEN None ELSE players[w]

\* ---- play_card ----
Index(player) == (CHOOSE i \in 1..NumPlayers : players[i] = player) - 1

\* A slip in the suit-following check: WIZARD and JESTER are not exempt.
BreaksSuit_SpecialNotExempt(g, player, card) ==
    /\ g.current_trick # <<>>
    /\ LET lead_suit == g.current_trick[1][1]
       IN  /\ lead_suit # "WHITE"
           /\ LET can_follow == \E c \in Cards : g.hands[player][c] > 0 /\ c[1] = lead_suit
              IN  ~(~can_follow \/ card[1] = lead_suit)

\* The suit-following check of lines 132-136 rejects the card.
BreaksSuit(g, player, card) ==
    /\ g.current_trick # <<>>
    /\ card[1] # "WHITE"
    /\ LET lead_suit == g.current_trick[1][1]
       IN  /\ lead_suit # "WHITE"
           /\ LET can_follow == \E c \in Cards : g.hands[player][c] > 0 /\ c[1] = lead_suit
              IN  ~(~can_follow \/ card[1] = lead_suit)

\* A slip in play_card: the card joins the trick but stays in the hand.
PutOnTrick_KeepsCard(g, player, card) ==
    [g EXCEPT !.current_trick = Append(@, card)]

\* Lines 138-140: the card leaves the hand and joins the trick.
PutOnTrick(g, player, card) ==
    [g EXCEPT !.hands[player] = BagRemove(@, card),
              !.current_trick = Append(@, card)]

\* A slip in the resolution: the full trick is left on the table.
AfterPlay_KeepsTrick(played, player) ==
    IF Len(played.current_trick) = NumPlayers
    THEN LET winner == _determine_trick_winner(played.current_trick, played.trump_card)
         IN  IF winner = None THEN Result(played, "TypeError")
             ELSE Result([played EXCEPT !.tricks_won[winner] = @ + 1,
                                        !.current_player = winner],
                         "OK")
    ELSE LET next_index == (Index(player) + 1) % NumPlayers
         IN  Result([played EXCEPT !.current_player = players[next_index + 1]], "OK")

\* A slip in the turn order: the turn stays with the player who just played.
AfterPlay_TurnStays(played, player) ==
    IF Len(played.current_trick) = NumPlayers
    THEN LET winner == _determine_trick_winner(played.current_trick, played.trump_card)
         IN  IF winner = None THEN Result(played, "TypeError")
             ELSE Result([played EXCEPT !.tricks_won[winner] = @ + 1,
                                        !.current_trick = <<>>,
                                        !.current_player = winner],
                         "OK")
    ELSE Result([played EXCEPT !.current_player = player], "OK")

\* Lines 142-151: the trick is resolved if it is full, else the turn passes.
AfterPlay(played, player) ==
    IF Len(played.current_trick) = NumPlayers
    THEN LET winner == _determine_trick_winner(played.current_trick, played.trump_card)
         IN  IF winner = None THEN Result(played, "TypeError")
             ELSE Result([played EXCEPT !.tricks_won[winner] = @ + 1,
                                        !.current_trick = <<>>,
                                        !.current_player = winner],
                         "OK")
    ELSE LET next_index == (Index(player) + 1) % NumPlayers
         IN  Result([played EXCEPT !.current_player = players[next_index + 1]], "OK")

\* A slip in play_card: the card is played before the suit is checked.
play_card_ChecksSuitLate(g, player, card) ==
    IF player # g.current_player THEN Result(g, "NotPlayersTurn")
    ELSE IF ~(g.hands[player][card] > 0) THEN Result(g, "CardNotInHand")
    ELSE IF BreaksSuit(g, player, card)
         THEN Result(PutOnTrick(g, player, card), "MustFollowSuit")
    ELSE AfterPlay(PutOnTrick(g, player, card), player)

play_card(g, player, card) ==
    IF player # g.current_player THEN Result(g, "NotPlayersTurn")
    ELSE IF ~(g.hands[player][card] > 0) THEN Result(g, "CardNotInHand")
    ELSE IF BreaksSuit(g, player, card) THEN Result(g, "MustFollowSuit")
    ELSE AfterPlay(PutOnTrick(g, player, card), player)

\* ---- is_round_complete, is_game_complete ----
is_round_complete(g) == \A p \in PlayerSet : BagSize(g.hands[p]) = 0
\* A slip in the round test: the game counts as over one round early.
is_game_complete_OneRoundEarly(g) ==
    g.current_round = max_rounds - 1 /\ is_round_complete(g)
is_game_complete(g) == g.current_round = max_rounds /\ is_round_complete(g)

\* ---- calculate_round_scores ----
\* A slip in the penalty: the difference is taken without abs.
Abs_Signed(x) == x
Abs(x) == IF x < 0 THEN -x ELSE x

\* The loop of lines 209-216 from seat i (1-based) on; reading the
\* prediction of a player who made none raises KeyError and ends the loop.
RECURSIVE ScoreLoop(_, _)
ScoreLoop(g, i) ==
    IF i > NumPlayers THEN Result(g, "OK")
    ELSE LET player == players[i]
         IN  IF player \notin DOMAIN g.predictions THEN Result(g, "KeyError")
             ELSE IF g.predictions[player] = g.tricks_won[player]
                  THEN ScoreLoop([g EXCEPT !.scores[player] =
                                      @ + 20 + (10 * g.tricks_won[player])], i + 1)
                  ELSE LET difference == Abs(g.predictions[player] - g.tricks_won[player])
                       IN  ScoreLoop([g EXCEPT !.scores[player] = @ - 10 * difference],
                                     i + 1)

calculate_round_scores(g) ==
    IF ~is_round_complete(g) THEN Result(g, "RoundNotComplete")
    ELSE ScoreLoop(g, 1)

\* ---- the calls a driver can make ----
PlayerInputs == PlayerSet \cup {Stranger}
TrickInputs == (-1)..MaxPrediction

\* No deal: a start_round call that fails never shuffles.
NoDeal == [hands |-> hands, deck |-> deck, rest |-> <<>>]

StartRound ==
    /\ current_round < max_rounds + MaxFailedStarts
    /\ score_calls < MaxScoreCalls
    /\ current_round >= MaxPredictionRound => DOMAIN predictions = {}
    /\ \E d \in (IF current_round < max_rounds THEN Deals[current_round + 1]
                 ELSE {NoDeal}) :
          LET res == start_round(Game, d)
          IN  /\ Install(res.g)
              /\ trick_players' = IF res.err = "OK" THEN <<>> ELSE trick_players
              /\ discarded' = IF res.err = "OK" THEN 0 ELSE discarded
              /\ UNCHANGED <<score_calls, pc, pops, seat_cards>>

MakePrediction ==
    /\ current_round <= MaxPredictionRound
    /\ \E player \in PlayerInputs, tricks \in TrickInputs :
          /\ Install(make_prediction(Game, player, tricks).g)
          /\ UNCHANGED <<trick_players, discarded, score_calls, pc, pops, seat_cards>>

PlayCard ==
    \E player \in PlayerInputs, card \in Cards :
        LET res == play_card(Game, player, card)
            appended == res.g.current_trick # current_trick
        IN  /\ Install(res.g)
            /\ trick_players' = IF res.g.current_trick = <<>> THEN <<>>
                                ELSE IF appended THEN Append(trick_players, player)
                                ELSE trick_players
            /\ discarded' = IF res.g.hands # hands THEN discarded + 1 ELSE discarded
            /\ UNCHANGED <<score_calls, pc, pops, seat_cards>>

CalculateRoundScores ==
    /\ score_calls < MaxScoreCalls
    /\ LET res == calculate_round_scores(Game)
       IN  /\ Install(res.g)
           /\ score_calls' = IF res.g.scores # scores THEN score_calls + 1 ELSE score_calls
           /\ UNCHANGED <<trick_players, discarded, pc, pops, seat_cards>>

Next == StartRound \/ MakePrediction \/ PlayCard \/ CalculateRoundScores

Spec == Init /\ [][Next]_vars

\* ---- main(): the loop of src/main.py, lines 19-70 ----
\* What the user can type at the prediction prompt (line 29).
DriverPredictionInputs == (-1)..MaxDriverPrediction

At(line, i) == [at |-> line, i |-> i]

InitMain == /\ NewGame
            /\ pc = At("while", 0)
            /\ pops = <<>>
            /\ seat_cards = NoHands

\* Line 19 and, if the game is not over, line 20. An AssertionError of
\* start_round is not caught and ends main().
MainWhile ==
    /\ pc.at = "while"
    /\ IF is_game_complete(Game)
       THEN /\ pc' = At("done", 0)
            /\ UNCHANGED <<current_round, trump_card, current_player, scores,
                           predictions, hands, tricks_won, current_trick, deck,
                           trick_players, discarded, score_calls, pops, seat_cards>>
       ELSE \E d \in (IF current_round < max_rounds THEN Deals[current_round + 1]
                      ELSE {NoDeal}) :
               LET res == start_round(Game, d)
               IN  /\ Install(res.g)
                   /\ pc' = IF res.err = "OK" THEN At("predict", 1) ELSE At("raised", 0)
                   /\ trick_players' = IF res.err = "OK" THEN <<>> ELSE trick_players
                   /\ discarded' = IF res.err = "OK" THEN 0 ELSE discarded
                   /\ UNCHANGED <<score_calls, pops, seat_cards>>

\* Lines 25-38 for the player at seat pc.i (1-based): a number outside
\* 0..current_round is asked for again, an AssertionError is caught and the
\* prompt repeats.
MainPredict ==
    /\ pc.at = "predict"
    /\ \E prediction \in DriverPredictionInputs :
          IF 0 <= prediction /\ prediction <= current_round
          THEN LET res == make_prediction(Game, players[pc.i], prediction)
               IN  /\ Install(res.g)
                   /\ pc' = IF res.err # "OK" THEN pc
                            ELSE IF pc.i < NumPlayers THEN At("predict", pc.i + 1)
                            ELSE At("play", 0)
                   /\ UNCHANGED <<trick_players, discarded, score_calls, pops, seat_cards>>
          ELSE UNCHANGED vars

\* Lines 41-62, one prompt: the card at a valid index of the current
\* player's hand is played, and an AssertionError is caught and the prompt
\* repeats.
MainPlay ==
    /\ pc.at = "play"
    /\ ~is_round_complete(Game)
    /\ IF current_player \notin PlayerSet
       THEN /\ pc' = At("raised", 0)
            /\ UNCHANGED <<current_round, trump_card, current_player, scores,
                           predictions, hands, tricks_won, current_trick, deck,
                           trick_players, discarded, score_calls, pops, seat_cards>>
       ELSE \E card \in {c \in Cards : hands[current_player][c] > 0} :
               LET res == play_card(Game, current_player, card)
                   appended == res.g.current_trick # current_trick
               IN  /\ Install(res.g)
                   /\ trick_players' = IF res.g.current_trick = <<>> THEN <<>>
                                       ELSE IF appended
                                            THEN Append(trick_players, current_player)
                                       ELSE trick_players
                   /\ discarded' = IF res.g.hands # hands THEN discarded + 1
                                   ELSE discarded
                   /\ UNCHANGED <<score_calls, pc, pops, seat_cards>>

\* Line 41 when the round is complete, then line 70. An exception of
\* calculate_round_scores is not caught and ends main().
MainScore ==
    /\ pc.at = "play"
    /\ is_round_complete(Game)
    /\ LET res == calculate_round_scores(Game)
       IN  /\ Install(res.g)
           /\ score_calls' = IF res.g.scores # scores THEN score_calls + 1
                             ELSE score_calls
           /\ pc' = IF res.err = "OK" THEN At("while", 0) ELSE At("raised", 0)
           /\ UNCHANGED <<trick_players, discarded, pops, seat_cards>>

MainNext == MainWhile \/ MainPredict \/ MainPlay \/ MainScore

\* The user answers every prompt in the end, so main() keeps taking steps.
SpecMain == InitMain /\ [][MainNext]_vars /\ WF_vars(MainNext)

\* ---- _deal_cards on its own (game.py lines 92-98) ----
\* start_round has counted the round up and reset the round's fields (lines
\* 71-80) and is about to call _deal_cards; trump_card and current_player
\* are what an earlier round left.
InitDeal ==
    /\ current_round \in 1..max_rounds
    /\ trump_card \in (IF current_round = 1 THEN {NoCard} ELSE Cards)
    /\ current_player \in (IF current_round = 1 THEN {None} ELSE PlayerSet)
    /\ scores = [p \in PlayerSet |-> 0]
    /\ predictions = <<>>
    /\ hands = [p \in PlayerSet |-> EmptyBag]
    /\ tricks_won = [p \in PlayerSet |-> 0]
    /\ current_trick = <<>>
    /\ deck = create_deck
    /\ trick_players = <<>>
    /\ discarded = 0
    /\ score_calls = 0
    /\ pc = At("shuffle", 0)
    /\ pops = <<>>
    /\ seat_cards = NoHands

\* Line 95: the shuffle fixes the order in which the deck will be popped.
Shuffle ==
    /\ pc.at = "shuffle"
    /\ pops' \in Draws(create_deck, PopCount(current_round))
    /\ pc' = At("deal", 0)
    /\ UNCHANGED <<current_round, trump_card, current_player, scores,
                   predictions, hands, tricks_won, current_trick, deck,
                   trick_players, discarded, score_calls, seat_cards>>

\* Lines 97-98.
DealCards ==
    /\ pc.at = "deal"
    /\ seat_cards' = [seat \in 0..(NumPlayers - 1) |->
                         HandPops(pops, seat, current_round)]
    /\ hands' = _deal_cards(pops, current_round).hands
    /\ deck' = _deal_cards(pops, current_round).deck
    /\ pc' = At("dealt", 0)
    /\ UNCHANGED <<current_round, trump_card, current_player, scores,
                   predictions, tricks_won, current_trick,
                   trick_players, discarded, score_calls, pops>>

DealNext == Shuffle \/ DealCards

SpecDeal == InitDeal /\ [][DealNext]_vars

\* ======================= properties =======================
\* The step is a play_card call that took the card from the hand of the
\* current player.
PlaysCard(card) ==
    /\ current_player \in PlayerSet
    /\ hands[current_player][card] > 0
    /\ discarded' = discarded + 1
    /\ hands' = [hands EXCEPT ![current_player] = BagRemove(@, card)]
\* ... and that card was the last one of the trick.
FillsTrick(card) == PlaysCard(card) /\ Len(current_trick) = NumPlayers - 1
\* The trick it filled, and who played each of its cards.
FullTrick(card) == Append(current_trick, card)
FullTrickPlayers == Append(trick_players, current_player)
\* The step awards the trick to player p.
Awarded(p) == /\ current_player' = p
              /\ tricks_won' = [tricks_won EXCEPT ![p] = @ + 1]
              /\ current_trick' = <<>>

\* C1: a play_card call that fills a trick holding a WIZARD awards the trick
\* to the player who played the first WIZARD of the trick, whoever led.
C1_FirstWizardWins ==
    [][\A card \in Cards :
          (FillsTrick(card) /\ \E i \in 1..NumPlayers : IsWizard(FullTrick(card)[i]))
          => Awarded(FullTrickPlayers[Min({i \in 1..NumPlayers :
                                              IsWizard(FullTrick(card)[i])})])]_vars

\* C2: a play_card call that fills a trick of JESTERs only awards the trick
\* to the player who led it, whoever that is.
C2_AllJestersLeaderWins ==
    [][(FillsTrick(Jester) /\ \A i \in 1..NumPlayers : IsJester(FullTrick(Jester)[i]))
       => Awarded(FullTrickPlayers[1])]_vars

\* The comparison C3 describes: the position of the final winning card among
\* the non-JESTER cards of a trick, taken in play order from position i on,
\* w being the position of the winning card so far (0: none yet).
TrumpSuit == IF trump_card = NoCard THEN None ELSE trump_card[1]
Replaces(card, winning) ==
    \/ card[1] = TrumpSuit /\ winning[1] # TrumpSuit
    \/ card[1] = winning[1] /\ card[2] > winning[2]
RECURSIVE FinalWinningPosition(_, _, _)
FinalWinningPosition(trick, i, w) ==
    IF i > Len(trick) THEN w
    ELSE IF IsJester(trick[i]) THEN FinalWinningPosition(trick, i + 1, w)
    ELSE IF w = 0 \/ Replaces(trick[i], trick[w])
         THEN FinalWinningPosition(trick, i + 1, i)
    ELSE FinalWinningPosition(trick, i + 1, w)

\* C3: a play_card call that fills a trick without WIZARD and with a card
\* that is no JESTER awards the trick to the player who played the final
\* winning card of the running comparison, whoever led.
C3_FinalWinningCardWins ==
    [][\A card \in Cards :
          (/\ FillsTrick(card)
           /\ \A i \in 1..NumPlayers : ~IsWizard(FullTrick(card)[i])
           /\ \E i \in 1..NumPlayers : ~IsJester(FullTrick(card)[i]))
          => Awarded(FullTrickPlayers[FinalWinningPosition(FullTrick(card), 1, 0)])]_vars

\* C4: the deck, the trump card if one is set, the hands and the cards
\* played in the round add up to the whole deck, in every state.
CardsInHands == SumOver([p \in PlayerSet |-> BagSize(hands[p])], PlayerSet)
C4_CardsAddUp ==
    BagSize(deck) + (IF trump_card # NoCard THEN 1 ELSE 0) + CardsInHands + discarded
        = DeckSize

\* C5: the round number never exceeds DeckSize \div NumPlayers, not even
\* after a start_round call that failed.
C5_RoundBounded == current_round <= max_rounds

\* C6: in every state of the final round there is no trump card.
C6_FinalRoundHasNoTrump == current_round = max_rounds => trump_card = NoCard

\* C7: once max_rounds calls of start_round have been made (each call counts
\* the round up by one), the next call fails with RoundLimitExceeded and
\* leaves the game as it was.
C7_FailedStartChangesNothing ==
    current_round = max_rounds =>
        /\ start_round(Game, NoDeal).err = "RoundLimitExceeded"
        /\ start_round(Game, NoDeal).g = Game

\* C8: in every state calculate_round_scores either changes the score of
\* every player or fails and leaves every score as it was.
C8_ScoringAllOrNothing ==
    LET res == calculate_round_scores(Game)
    IN  \/ \A p \in PlayerSet : res.g.scores[p] # scores[p]
        \/ res.err # "OK" /\ res.g.scores = scores

\* C9: in every state, a make_prediction call that fails (unknown player,
\* count out of range, duplicate) and a play_card call that fails (wrong
\* turn, card not in hand, suit not followed) leave every field of the game
\* as it was, whatever the arguments.
C9_FailedCallsChangeNothing ==
    /\ \A player \in PlayerInputs, tricks \in TrickInputs :
          LET res == make_prediction(Game, player, tricks)
          IN  res.err \in {"UnknownPlayer", "PredictionOutOfRange", "DuplicatePrediction"}
              => res.g = Game
    /\ \A player \in PlayerInputs, card \in Cards :
          LET res == play_card(Game, player, card)
          IN  res.err \in {"NotPlayersTurn", "CardNotInHand", "MustFollowSuit"}
              => res.g = Game

\* A state in which play_card can fail in each of its three ways and
\* make_prediction for a bad player and a bad count.
C9_Witness ==
    /\ current_player \in PlayerSet
    /\ \E card \in Cards : play_card(Game, current_player, card).err = "MustFollowSuit"
    /\ \E card \in Cards : play_card(Game, current_player, card).err = "CardNotInHand"
    /\ \E player \in PlayerSet, card \in Cards :
          play_card(Game, player, card).err = "NotPlayersTurn"
    /\ make_prediction(Game, Stranger, 0).err = "UnknownPlayer"
    /\ make_prediction(Game, current_player, -1).err = "PredictionOutOfRange"

\* C10: a card from the hand of the current player is rejected with
\* MustFollowSuit exactly when the trick is not empty, neither its lead card
\* nor the played card is a WIZARD or JESTER, the player holds a card of the
\* lead suit and the played card is of another suit; any other card of the
\* hand is accepted.
IsSpecial(card) == IsWizard(card) \/ IsJester(card)
MustFollow(card) ==
    /\ current_trick # <<>>
    /\ ~IsSpecial(current_trick[1])
    /\ ~IsSpecial(card)
    /\ \E c \in Cards : hands[current_player][c] > 0 /\ c[1] = current_trick[1][1]
    /\ card[1] # current_trick[1][1]
C10_MustFollowSuitExactly ==
    current_player \in PlayerSet =>
        \A card \in Cards :
            hands[current_player][card] > 0 =>
                LET err == play_card(Game, current_player, card).err
                IN  /\ err = "MustFollowSuit" <=> MustFollow(card)
                    /\ ~MustFollow(card) => err = "OK"

\* The current player holds a card that is rejected and a card (of the lead
\* suit) that is accepted on the same trick.
C10_Witness ==
    /\ current_player \in PlayerSet
    /\ \E card \in Cards :
          /\ hands[current_player][card] > 0
          /\ play_card(Game, current_player, card).err = "MustFollowSuit"
    /\ \E card \in Cards :
          /\ hands[current_player][card] > 0
          /\ play_card(Game, current_player, card).err = "OK"

\* The 0-based seat of a player of the roster, and the player i seats after p
\* in roster order, wrapping from the last seat to seat 0.
SeatOf(p) == CHOOSE s \in 0..(NumPlayers - 1) : players[s + 1] = p
SeatAfter(p, i) == players[((SeatOf(p) + i) % NumPlayers) + 1]

\* C11: play_card by anyone but the current player fails with NotPlayersTurn;
\* a successful play_card that does not fill the trick passes the turn to the
\* next seat in roster order (wrapping round); hence the card at position i
\* of the trick was played by the player i seats after the leader, and the
\* turn is with the player who comes after them.
C11_TurnOrder ==
    /\ \A player \in PlayerInputs, card \in Cards :
          player # current_player
          => play_card(Game, player, card).err = "NotPlayersTurn"
    /\ current_player \in PlayerSet =>
          \A card \in Cards :
              LET res == play_card(Game, current_player, card)
              IN  (res.err = "OK" /\ Len(current_trick) + 1 < NumPlayers)
                  => res.g.current_player = SeatAfter(current_player, 1)
    /\ Len(trick_players) = Len(current_trick)
    /\ \A i \in 1..Len(trick_players) :
          trick_players[i] = SeatAfter(trick_players[1], i - 1)
    /\ trick_players # <<>>
       => current_player = SeatAfter(trick_players[1], Len(trick_players))

\* A trick led by seat 1 in which the turn has wrapped round to seat 0.
C11_Witness ==
    /\ Len(current_trick) = NumPlayers - 1
    /\ trick_players[1] = players[2]
    /\ current_player = players[1]

\* C12: a calculate_round_scores call that succeeds adds 20 + 10 x tricks won
\* to the score of each player whose prediction equals their tricks won and
\* subtracts 10 x |predicted - won| from the score of each other player,
\* without clamping, and changes nothing but the scores.
Distance(a, b) == IF a > b THEN a - b ELSE b - a
C12_ScoringFormula ==
    LET res == calculate_round_scores(Game)
    IN  res.err = "OK" =>
            /\ \A p \in PlayerSet :
                  res.g.scores[p] - scores[p] =
                      IF predictions[p] = tricks_won[p]
                      THEN 20 + 10 * tricks_won[p]
                      ELSE -(10 * Distance(predictions[p], tricks_won[p]))
            /\ [res.g EXCEPT !.scores = scores] = Game

\* Scoring succeeds for a player who predicted the trick they won and leaves
\* another player with a negative score.
C12_Witness ==
    LET res == calculate_round_scores(Game)
    IN  /\ res.err = "OK"
        /\ \E p \in PlayerSet : /\ tricks_won[p] >= 1
                                /\ predictions[p] = tricks_won[p]
                                /\ res.g.scores[p] = 20 + 10 * tricks_won[p]
        /\ \E p \in PlayerSet : res.g.scores[p] < 0

TricksCompleted == discarded \div NumPlayers

\* C15 as stated: in every state after start_round, also in the middle of a
\* trick, every hand has round number - tricks completed cards.
C15_HandSizes ==
    current_round >= 1 =>
        \A p \in PlayerSet : BagSize(hands[p]) = current_round - TricksCompleted

\* C15 as amended: in every state after start_round every hand has
\* R - tricks completed cards, less one if its player has already played in
\* the current trick, R being the last round that was started (the round
\* number, or max_rounds once a start_round call has failed).
LastStartedRound == IF current_round <= max_rounds THEN current_round ELSE max_rounds
HasPlayed(p) == \E i \in 1..Len(trick_players) : trick_players[i] = p
C15_HandSizesInTrick ==
    current_round >= 1 =>
        \A p \in PlayerSet :
            BagSize(hands[p]) = LastStartedRound - TricksCompleted
                                    - (IF HasPlayed(p) THEN 1 ELSE 0)

\* The second trick of round 2 is under way: its leader has played.
C15_Witness ==
    /\ current_round = 2
    /\ TricksCompleted = 1
    /\ Len(current_trick) = 1
    /\ BagSize(hands[trick_players[1]]) = 0
    /\ \E p \in PlayerSet : BagSize(hands[p]) = 1

\* C16: a recorded prediction keeps its value in every step that is not a
\* start_round call (which counts the round number up): a further
\* make_prediction call for that player changes nothing and, for a count in
\* range, fails with DuplicatePrediction; play_card and
\* calculate_round_scores leave the predictions alone.
C16_PredictionsKept ==
    [][/\ current_round' = current_round
          => \A p \in DOMAIN predictions :
                p \in DOMAIN predictions' /\ predictions'[p] = predictions[p]
       /\ \A p \in DOMAIN predictions, tricks \in TrickInputs :
             LET res == make_prediction(Game, p, tricks)
             IN  /\ res.g = Game
                 /\ (0 <= tricks /\ tricks <= current_round)
                    => res.err = "DuplicatePrediction"]_vars

\* Every player has predicted, the trick of the round has been played and
\* the round has been scored.
C16_Witness ==
    /\ DOMAIN predictions = PlayerSet
    /\ discarded = NumPlayers
    /\ score_calls = 1

\* C17: in every state between two calls the current trick holds fewer cards
\* than there are players: play_card resolves and clears a full trick before
\* it returns.
C17_TrickNeverFull == Len(current_trick) < NumPlayers

\* The first trick of round 2 has just been resolved and cleared.
C17_Witness ==
    /\ current_round = 2
    /\ discarded = NumPlayers
    /\ current_trick = <<>>
    /\ \E p \in PlayerSet : tricks_won[p] = 1 /\ current_player = p

\* C19: in every state of a started round that is not complete the current
\* player holds a card that play_card accepts, and the plays made so far
\* plus the cards still in the hands come to player count x round number
\* successful plays for the round.
C19_RoundCanBeCompleted ==
    (current_round >= 1 /\ ~is_round_complete(Game)) =>
        /\ current_player \in PlayerSet
        /\ BagSize(hands[current_player]) > 0
        /\ \E card \in Cards :
              /\ hands[current_player][card] > 0
              /\ play_card(Game, current_player, card).err = "OK"
        /\ discarded + CardsInHands = NumPlayers * current_round

\* C20: in every state the tricks won by all players add up to the tricks
\* completed so far in the round, and to the round number once the round is
\* complete.
TricksWonByAll == SumOver(tricks_won, PlayerSet)
C20_TricksWonAddUp ==
    /\ TricksWonByAll = TricksCompleted
    /\ is_round_complete(Game) => TricksWonByAll = current_round

\* An upper bound on the steps main() has yet to take: the prompts and plays
\* left in the round, its scoring, the rounds to come and the exit.
RoundSteps == 2 + NumPlayers + NumPlayers * max_rounds
StepsLeft ==
    (IF pc.at = "done" THEN 0 ELSE 1)
    + (max_rounds - current_round) * RoundSteps
    + (IF pc.at = "predict" THEN (NumPlayers - pc.i + 1) + CardsInHands + 1
       ELSE IF pc.at = "play" THEN CardsInHands + 1
       ELSE 0)

\* C14: under main() is_game_complete is false in every state before the
\* last card of round max_rounds has been played and true from then on; the
\* loop never makes start_round fail, and it ends, after exactly max_rounds
\* rounds, each scored once. That it ends is stated by its steps: every
\* prompt has an answer that is accepted (the other lines of the loop
\* always change the state), and every step that changes the state lowers
\* StepsLeft, which is never negative.
\* Some answer to the prompt main() is at is accepted.
PromptCanBeAnswered ==
    /\ pc.at = "predict" => make_prediction(Game, players[pc.i], 0).err = "OK"
    /\ (pc.at = "play" /\ ~is_round_complete(Game)) =>
          /\ current_player \in PlayerSet
          /\ \E card \in Cards :
                /\ hands[current_player][card] > 0
                /\ play_card(Game, current_player, card).err = "OK"
LastCardPlayed == current_round = max_rounds /\ discarded = NumPlayers * max_rounds
MainRunsClean ==
    /\ is_game_complete(Game) <=> LastCardPlayed
    /\ pc.at # "raised"
    /\ current_round <= max_rounds
    /\ (pc.at = "while" /\ ~is_game_complete(Game)) => current_round < max_rounds
    /\ pc.at = "done" => (LastCardPlayed /\ score_calls = max_rounds)
    /\ StepsLeft >= 0
    /\ PromptCanBeAnswered
C14_DriverProtocol == []MainRunsClean /\ [][StepsLeft' < StepsLeft]_vars

\* main() has left its loop after the last round.
C14_Witness == pc.at = "done" /\ is_game_complete(Game) /\ current_round = max_rounds

\* C18 as stated: the k-th popped card (from 0) goes to seat k mod player
\* count, and every hand has current_round cards.
C18_RoundRobinDeal ==
    pc.at = "dealt" =>
        /\ \A k \in 0..(NumPlayers * current_round - 1) :
              /\ (k \div NumPlayers) + 1 \in DOMAIN seat_cards[k % NumPlayers]
              /\ seat_cards[k % NumPlayers][(k \div NumPlayers) + 1] = pops[k + 1]
        /\ \A seat \in 0..(NumPlayers - 1) : Len(seat_cards[seat]) = current_round

\* C18, amended: the k-th popped card (from 0) goes to seat
\* floor(k / current_round), as the next card of that hand; every hand has
\* exactly current_round cards, and these are the cards the game holds for
\* the player at that seat.
C18_SeatBySeatDeal ==
    pc.at = "dealt" =>
        /\ \A k \in 0..(NumPlayers * current_round - 1) :
              /\ (k % current_round) + 1 \in DOMAIN seat_cards[k \div current_round]
              /\ seat_cards[k \div current_round][(k % current_round) + 1] = pops[k + 1]
        /\ \A seat \in 0..(NumPlayers - 1) :
              /\ Len(seat_cards[seat]) = current_round
              /\ hands[players[seat + 1]] = SeqToBag(seat_cards[seat])
              /\ BagSize(hands[players[seat + 1]]) = current_round

\* A deal of round 2 in which the second pop and the pop after the first
\* pass differ, so that the two orders give seat 0 different hands.
C18_Witness ==
    /\ pc.at = "dealt"
    /\ current_round = 2
    /\ pops[2] # pops[NumPlayers + 1]
    /\ seat_cards[0] = <<pops[1], pops[2]>>

====
